---- MODULE Spec2Model ----
(***************************************************************************)
(* Monte-Carlo tree search of kristbsy/alpha-scuffed (src/mcts.rs) over    *)
(* the 3x3 board game of src/checkers.rs, with the Game / Policy contracts *)
(* of src/game.rs.                                                         *)
(*                                                                         *)
(* Option<T> is modelled as a set: None is {} and Some(x) is {x}.          *)
(* f32 scores are modelled as exact decimal fixed-point integers: a score  *)
(* s is stored as s * ScoreScale, where ScoreScale = 10^MaxDepth, so that  *)
(* every product by DECAY = 9/10 along a path of the tree is exact.        *)
(***************************************************************************)
EXTENDS Integers, Sequences, FiniteSets, TLC

\* ------------------------------------------------------------------ bounds

\* Number of simulations of one mcts call (1000 in the source).
SIMULATIONS == 11

\* ------------------------------------------------------- program constants

\* impl Game<9, 18> for Checkers: N moves, I features.
N == 9
I == 18

\* const DECAY: f32 = 0.9, as the fraction DecayNum / DecayDen.
DecayNum == 9
DecayDen == 10

\* const EXPLORATION_WEIGHT: f32 = 10.
EXPLORATION_WEIGHT == 10

\* f32::MAX, the ucb of an unvisited node: larger than every other ucb value.
F32_MAX == 2147483647

\* Fixed-point unit of a ucb value (one ucb unit is 1 / UcbScale).
UcbScale == 10000

\* ----------------------------------------------------------------- Options

None == {}
Some(x) == {x}
unwrap(o) == CHOOSE x \in o : TRUE

\* Players::swap
swap_player(p) == IF p = "Player" THEN "Opponent" ELSE "Player"

\* SimpleBoardState::swap
swap_square(s) ==
    CASE s = "Empty" -> "Empty"
      [] s = "Player" -> "Opponent"
      [] s = "Opponent" -> "Player"

\* ---------------------------------------------------------------- Checkers

Cells == 0 .. (N - 1)

\* Checkers::new
Checkers_new == [board |-> [i \in Cells |-> "Empty"], current_player |-> "Player"]

\* The eight lines in the order winning_player examines them:
\* row 0, column 0, row 1, column 1, row 2, column 2, diagonal, anti-diagonal.
Lines ==
    << <<0, 1, 2>>, <<0, 3, 6>>, <<3, 4, 5>>, <<1, 4, 7>>,
       <<6, 7, 8>>, <<2, 5, 8>>, <<0, 4, 8>>, <<2, 4, 6>> >>

line_complete(g, l) ==
    /\ g.board[l[1]] # "Empty"
    /\ g.board[l[1]] = g.board[l[2]]
    /\ g.board[l[2]] = g.board[l[3]]

RECURSIVE first_line(_, _)
first_line(g, k) ==
    IF k > Len(Lines) THEN None
    ELSE IF line_complete(g, Lines[k]) THEN Some(g.board[Lines[k][1]])
    ELSE first_line(g, k + 1)

\* Variant of winning_player: the two diagonals are not examined.
winning_player_rows_columns(g) ==
    IF \E k \in 1..6 : line_complete(g, Lines[k])
    THEN LET k == CHOOSE k \in 1..6 :
                      /\ line_complete(g, Lines[k])
                      /\ \A j \in 1..(k - 1) : ~line_complete(g, Lines[j])
         IN  Some(g.board[Lines[k][1]])
    ELSE None

\* Checkers::winning_player
winning_player(g) == first_line(g, 1)

\* Checkers::available_moves
available_moves(g) == [i \in Cells |-> g.board[i] = "Empty"]

\* Variant of game_ended: a won position with empty cells counts as running.
game_ended_board_full(g) ==
    ~(\E i \in Cells : available_moves(g)[i])

\* Checkers::game_ended
game_ended(g) ==
    LET no_moves_available == ~(\E i \in Cells : available_moves(g)[i])
        winner == winning_player(g) # None
    IN  winner \/ no_moves_available

\* Checkers::current_player
current_player(g) == g.current_player

\* Checkers::perform_move, for a space that passes the assertion.
perform_move(g, space) ==
    [board |-> [g.board EXCEPT ![space] = g.current_player],
     current_player |-> swap_player(g.current_player)]

\* Variant of flip_board: the squares are swapped, current_player is kept.
flip_board_keeps_player(g) ==
    [board |-> [i \in Cells |-> swap_square(g.board[i])],
     current_player |-> g.current_player]

\* Checkers::flip_board
flip_board(g) ==
    [board |-> [i \in Cells |-> swap_square(g.board[i])],
     current_player |-> swap_player(g.current_player)]

\* Checkers::validate_board_state: TRUE when its assertion passes.
validate_board_state(g) ==
    LET player_pieces == Cardinality({i \in Cells : g.board[i] = "Player"})
        opponent_pieces == Cardinality({i \in Cells : g.board[i] = "Opponent"})
        abs_diff == IF player_pieces >= opponent_pieces
                    THEN player_pieces - opponent_pieces
                    ELSE opponent_pieces - player_pieces
    IN  abs_diff < 2

\* Checkers::get_game_state_slice
get_game_state_slice(g) ==
    [i \in 0 .. (I - 1) |->
        IF i < N
        THEN (IF g.board[i] = "Player" THEN 1 ELSE 0)
        ELSE (IF g.board[i - N] = "Opponent" THEN 1 ELSE 0)]

\* game::move_indices: the legal move indices in ascending order.
RECURSIVE move_indices_from(_, _)
move_indices_from(g, i) ==
    IF i >= N THEN << >>
    ELSE IF available_moves(g)[i] THEN <<i>> \o move_indices_from(g, i + 1)
    ELSE move_indices_from(g, i + 1)

move_indices(g) == move_indices_from(g, 0)

\* ---------------------------------------------------------- root positions

\* A board written row by row with X = Player, O = Opponent, "." = Empty.
Sq(c) == CASE c = "X" -> "Player" [] c = "O" -> "Opponent" [] c = "." -> "Empty"
Position(cells, mover) ==
    [board |-> [i \in Cells |-> Sq(cells[i + 1])], current_player |-> mover]

\* Positions handed to mcts. Each is reachable from new() by perform_move and
\* flip_board: the player to move never owns more cells than the other.
RootGames ==
    { \* Player to move; Player wins at 2, Opponent would win at 5.
      Position(<<"X","X",".", "O","O",".", "X","O",".">>, "Player"),
      \* The same position flipped: Opponent to move and wins at 2.
      Position(<<"O","O",".", "X","X",".", "O","X",".">>, "Opponent"),
      \* Opponent to move, two empty cells; Opponent wins at 7, 8 leads to a tie.
      Position(<<"X","O","X", "X","O","X", "O",".",".">>, "Opponent"),
      \* The same position flipped, as self-play hands it over: Player to move.
      Position(<<"O","X","O", "O","X","O", "X",".",".">>, "Player"),
      \* Player to move without a winning move; Opponent threatens 7.
      Position(<<"X","O","X", "X","O",".", "O",".",".">>, "Player"),
      \* Already ended: Opponent owns row 0.
      Position(<<"O","O","O", "X","X",".", "X",".",".">>, "Player") }

Empties(g) == Cardinality({i \in Cells : g.board[i] = "Empty"})

SetMax(S) == CHOOSE x \in S : \A y \in S : y <= x

\* Deepest node a tree over RootGames can hold: one level per empty cell.
MaxDepth == SetMax({Empties(g) : g \in RootGames})

RECURSIVE Pow(_, _)
Pow(b, e) == IF e = 0 THEN 1 ELSE b * Pow(b, e - 1)

\* The fixed-point unit of a score: 1.0 is stored as ScoreScale.
ScoreScale == Pow(DecayDen, MaxDepth)

\* ------------------------------------------------------------- search tree

\* MCTSData::new, as the root node of Tree::new (no parent, no children).
MCTSData_new(g) ==
    [game |-> g, visits |-> 0, score |-> 0, source_move |-> None,
     parent |-> None, children |-> << >>]

\* Variant of the node built by expand: source_move holds the child's
\* position among its siblings instead of the move played.
append_child_sibling_index(tree, node, new_game, mv) ==
    LET id == Len(tree) + 1
        data == [game |-> new_game, visits |-> 0, score |-> 0,
                 source_move |-> Some(Len(tree[node].children)),
                 parent |-> Some(node), children |-> << >>]
    IN  Append([tree EXCEPT ![node].children = Append(@, id)], data)

\* NodeMut::append of one MCTSData built by expand: the new node takes the
\* next identifier of the arena and becomes the last child of node.
append_child(tree, node, new_game, mv) ==
    LET id == Len(tree) + 1
        data == [game |-> new_game, visits |-> 0, score |-> 0,
                 source_move |-> Some(mv), parent |-> Some(node),
                 children |-> << >>]
    IN  Append([tree EXCEPT ![node].children = Append(@, id)], data)

\* Mutant of expand: the moves are played on one shared position instead of
\* on a fresh clone per move.
RECURSIVE expand_moves_shared(_, _, _, _)
expand_moves_shared(tree, node, g, moves) ==
    IF moves = << >> THEN tree
    ELSE LET played == perform_move(g, Head(moves))
         IN  expand_moves_shared(append_child(tree, node, played, Head(moves)),
                                 node, played, Tail(moves))

expand_shared_game(tree, node) ==
    expand_moves_shared(tree, node, tree[node].game, move_indices(tree[node].game))

RECURSIVE expand_moves(_, _, _, _)
expand_moves(tree, node, g, moves) ==
    IF moves = << >> THEN tree
    ELSE expand_moves(append_child(tree, node, perform_move(g, Head(moves)), Head(moves)),
                      node, g, Tail(moves))

\* Variant of expand: no child is appended.
expand_nothing(tree, node) == tree

\* mcts::expand
expand(tree, node) ==
    LET g == tree[node].game
    IN  expand_moves(tree, node, g, move_indices(g))

\* Mutant of backprop: the value is handed to the parent without DECAY.
RECURSIVE backprop_no_decay(_, _, _)
backprop_no_decay(tree, node, points) ==
    LET t1 == [tree EXCEPT ![node].visits = @ + 1, ![node].score = @ + points]
    IN  IF tree[node].parent # None
        THEN backprop_no_decay(t1, unwrap(tree[node].parent), points)
        ELSE t1

\* Mutant of backprop: the walk up stops below the root.
RECURSIVE backprop_skips_root(_, _, _)
backprop_skips_root(tree, node, points) ==
    IF tree[node].parent = None THEN tree
    ELSE backprop_skips_root(
             [tree EXCEPT ![node].visits = @ + 1, ![node].score = @ + points],
             unwrap(tree[node].parent), (points * DecayNum) \div DecayDen)

\* Variant of backprop: a pass counts as two visits.
RECURSIVE backprop_counts_twice(_, _, _)
backprop_counts_twice(tree, node, points) ==
    LET t1 == [tree EXCEPT ![node].visits = @ + 2, ![node].score = @ + points]
    IN  IF tree[node].parent # None
        THEN backprop_counts_twice(t1, unwrap(tree[node].parent),
                                   (points * DecayNum) \div DecayDen)
        ELSE t1

\* Variant of backprop: the value grows by 1 / DECAY per level.
RECURSIVE backprop_amplifies(_, _, _)
backprop_amplifies(tree, node, points) ==
    LET t1 == [tree EXCEPT ![node].visits = @ + 1, ![node].score = @ + points]
    IN  IF tree[node].parent # None
        THEN backprop_amplifies(t1, unwrap(tree[node].parent),
                                (points * DecayDen) \div DecayNum)
        ELSE t1

\* mcts::backprop; points is a fixed-point score.
RECURSIVE backprop(_, _, _)
backprop(tree, node, points) ==
    LET t1 == [tree EXCEPT ![node].visits = @ + 1, ![node].score = @ + points]
    IN  IF tree[node].parent # None
        THEN backprop(t1, unwrap(tree[node].parent), (points * DecayNum) \div DecayDen)
        ELSE t1

\* f32::sqrt on fixed-point values: the integer square root.
RECURSIVE sqrt_search(_, _, _)
sqrt_search(x, lo, hi) ==
    IF lo >= hi THEN lo
    ELSE LET mid == (lo + hi + 1) \div 2
         IN  IF mid * mid <= x THEN sqrt_search(x, mid, hi)
             ELSE sqrt_search(x, lo, mid - 1)

f32_sqrt(x) == sqrt_search(x, 0, IF x < 46340 THEN x ELSE 46340)

\* Mutant of ucb: an unvisited node scores 0 instead of f32::MAX.
ucb_unvisited_zero(tree, node) ==
    IF tree[node].visits = 0 THEN 0
    ELSE LET parent_visits == tree[unwrap(tree[node].parent)].visits
             root_parent == f32_sqrt(parent_visits * UcbScale * UcbScale)
             ratio == root_parent \div (tree[node].visits + 1)
             exploration_score == f32_sqrt(ratio * UcbScale) * EXPLORATION_WEIGHT
             exploitation_score ==
                 (tree[node].score * (UcbScale \div ScoreScale)) \div tree[node].visits
         IN  exploitation_score + exploration_score

\* mcts::ucb, in units of 1 / UcbScale.
ucb(tree, node) ==
    IF tree[node].visits = 0 THEN F32_MAX
    ELSE LET parent_visits == tree[unwrap(tree[node].parent)].visits
             \* sqrt(parent.visits), scaled by UcbScale
             root_parent == f32_sqrt(parent_visits * UcbScale * UcbScale)
             ratio == root_parent \div (tree[node].visits + 1)
             \* sqrt(ratio), scaled by UcbScale
             exploration_score == f32_sqrt(ratio * UcbScale) * EXPLORATION_WEIGHT
             exploitation_score ==
                 (tree[node].score * (UcbScale \div ScoreScale)) \div tree[node].visits
         IN  exploitation_score + exploration_score

Range(s) == {s[i] : i \in DOMAIN s}

\* Itertools::max_set_by_key over the children: every child of maximal ucb.
max_set_by_key(tree, children) ==
    {c \in Range(children) : \A d \in Range(children) : ucb(tree, d) <= ucb(tree, c)}

\* Variant of select_child: of the children of maximal ucb only the last in
\* child order is returned (max_by_key instead of max_set_by_key + choose).
select_child_last_max(tree, children) ==
    LET best == {k \in DOMAIN children :
                    \A j \in DOMAIN children :
                        ucb(tree, children[j]) <= ucb(tree, children[k])}
    IN  {children[CHOOSE k \in best : \A j \in best : j <= k]}

\* Mutant of select_child: the maximum is taken over the children of the root
\* and their children, not over the children handed in.
select_child_from_root(tree, children) ==
    LET pool == Range(tree[1].children) \cup
                UNION {Range(tree[c].children) : c \in Range(tree[1].children)}
    IN  {c \in pool : \A d \in pool : ucb(tree, d) <= ucb(tree, c)}

\* mcts::select_child: the set of nodes the random choice can return.
select_child(tree, children) == max_set_by_key(tree, children)

has_children(tree, node) == tree[node].children # << >>
\* Mutant of visit_stats_of: a child's visits are written at the child's
\* position among the children instead of at its source_move.
RECURSIVE visit_stats_by_position(_, _, _)
visit_stats_by_position(tree, children, acc) ==
    IF children = << >> THEN acc
    ELSE LET data == tree[Head(children)]
             position == Len(tree[unwrap(data.parent)].children) - Len(children)
         IN  visit_stats_by_position(tree, Tail(children),
                                     [acc EXCEPT ![position] = data.visits])

\* mcts::get_tree_stats: the per-move visit vector, each child's visits
\* written at its source_move in child order.
RECURSIVE visit_stats_of(_, _, _)
visit_stats_of(tree, children, acc) ==
    IF children = << >> THEN acc
    ELSE LET data == tree[Head(children)]
         IN  visit_stats_of(tree, Tail(children),
                            [acc EXCEPT ![unwrap(data.source_move)] = data.visits])

\* Mutant of max_by_key_visits: min_by_key, the first child of minimal visits.
min_by_key_visits(tree, children) ==
    LET best == CHOOSE k \in DOMAIN children :
                    /\ \A j \in DOMAIN children :
                           tree[children[j]].visits >= tree[children[k]].visits
                    /\ \A j \in DOMAIN children :
                           j < k => tree[children[j]].visits > tree[children[k]].visits
    IN  children[best]

\* Iterator::max_by_key(|x| x.visits): the last child of maximal visits.
max_by_key_visits(tree, children) ==
    LET best == CHOOSE k \in DOMAIN children :
                    /\ \A j \in DOMAIN children :
                           tree[children[j]].visits <= tree[children[k]].visits
                    /\ \A j \in DOMAIN children :
                           j > k => tree[children[j]].visits < tree[children[k]].visits
    IN  children[best]

\* mcts::get_tree_stats, when the root has children.
get_tree_stats(tree) ==
    LET child_datas == tree[1].children
    IN  [best_move_index |-> unwrap(tree[max_by_key_visits(tree, child_datas)].source_move),
         game_state |-> get_game_state_slice(tree[1].game),
         node_visits |-> visit_stats_of(tree, child_datas, [i \in Cells |-> 0]),
         score |-> tree[1].score]

\* mcts, lines 111-115: the value of an ended position.
terminal_points(g) ==
    LET result == winning_player(g)
    IN  IF result = Some("Player") THEN ScoreScale
        ELSE IF result = Some("Opponent") THEN 0 - ScoreScale
        ELSE 0

\* Mutant of simulate_result: the comparison with simulated_player is inverted.
simulate_result_inverted(g, simulated_player) ==
    LET winner == winning_player(g)
    IN  IF winner # None
        THEN (IF unwrap(winner) # simulated_player THEN "Win" ELSE "Loss")
        ELSE "Tie"

\* mcts::simulate, lines 170-179: the result of a finished playout.
simulate_result(g, simulated_player) ==
    LET winner == winning_player(g)
    IN  IF winner # None
        THEN (IF unwrap(winner) = simulated_player THEN "Win" ELSE "Loss")
        ELSE "Tie"

\* The simulated_player mcts passes to simulate (line 120).
SimulatedPlayer == "Player"

\* GameResult::points
result_points(r) ==
    CASE r = "Win" -> ScoreScale
      [] r = "Loss" -> 0 - ScoreScale
      [] r = "Tie" -> 0

\* ---------------------------------------------------------------- hex.rs

\* Side lengths of the Hex<T, U> boards modelled (T = 1, 4, 9 squares).
HexSides == {1, 2, 3}

\* Hex::new for T squares; new asserts that T is a perfect square.
Hex_new(T) ==
    LET sqrt == f32_sqrt(T)
    IN  [board |-> [i \in 0 .. (T - 1) |-> "Empty"],
         current_player |-> "Player",
         side_length |-> sqrt,
         winning_player |-> None,
         game_ended |-> FALSE]

\* The const generic T of a Hex value: the number of squares of its board.
Hex_T(g) == Cardinality(DOMAIN g.board)

\* Hex::coordinates
Hex_coordinates(g, index) ==
    <<index % g.side_length, index \div g.side_length>>

\* Hex::index
Hex_index(g, x, y) == x + y * g.side_length

\* Hex::check_connection
Hex_check_connection(g, index) ==
    IF index >= 0 /\ index < Hex_T(g) THEN Some(index) ELSE None

\* Variant of get_connections: the four neighbours of a square grid only.
Hex_get_connections_square(g, index) ==
    LET coords == Hex_coordinates(g, index)
        width == g.side_length
        push(wall, connection) ==
            IF ~wall /\ Hex_check_connection(g, connection) # None
            THEN <<connection>> ELSE << >>
    IN  push(coords[1] = 0, index - 1)
        \o push(coords[2] = 0, index - width)
        \o push(coords[2] = g.side_length - 1, index + width)
        \o push(coords[1] = g.side_length - 1, index + 1)

\* Hex::get_connections: the neighbours of a square, in the order pushed.
Hex_get_connections(g, index) ==
    LET coords == Hex_coordinates(g, index)
        width == g.side_length
        upper_left_wall == coords[1] = 0
        lower_left_wall == coords[2] = g.side_length - 1
        left_wall == upper_left_wall \/ lower_left_wall
        upper_right_wall == coords[2] = 0
        lower_right_wall == coords[1] = g.side_length - 1
        right_wall == upper_right_wall \/ lower_right_wall
        push(wall, connection) ==
            IF ~wall /\ Hex_check_connection(g, connection) # None
            THEN <<connection>> ELSE << >>
    IN  push(upper_left_wall, index - 1)
        \o push(upper_right_wall, index - width)
        \o push(left_wall, index + width - 1)
        \o push(lower_left_wall, index + width)
        \o push(lower_right_wall, index + 1)
        \o push(right_wall, index - width + 1)

\* check_winning_player: the squares of the player's first edge it owns.
Hex_initial_squares(g, player) ==
    LET from(k) == IF player = "Player" THEN k * g.side_length ELSE k
    IN  SelectSeq([k \in 1 .. g.side_length |-> from(k - 1)],
                  LAMBDA index : g.board[index] = player)

\* check_winning_player: the squares of the player's opposite edge.
Hex_target_squares(g, player) ==
    IF player = "Player"
    THEN [k \in 1 .. g.side_length |->
             (k - 1) * g.side_length + g.side_length - 1]
    ELSE [k \in 1 .. g.side_length |-> Hex_T(g) - g.side_length + (k - 1)]

\* check_winning_player: the while loop over the queue, from position i.
\* TRUE when a newly found neighbour is a target square of the player.
RECURSIVE Hex_search(_, _, _, _)
Hex_search(g, player, queue, i) ==
    IF ~(Len(queue) > i) THEN FALSE
    ELSE LET index == queue[i + 1]
             connections == Hex_get_connections(g, index)
             to_check == SelectSeq(connections,
                            LAMBDA c : c \notin Range(queue) /\ g.board[c] = player)
             targets == Hex_target_squares(g, player)
         IN  IF \E t \in DOMAIN targets :
                    /\ targets[t] \in Range(to_check)
                    /\ g.board[targets[t]] = player
             THEN TRUE
             ELSE Hex_search(g, player, queue \o to_check, i + 1)

\* Hex::check_winning_player: Player is searched first, then Opponent.
Hex_check_winning_player(g) ==
    IF Hex_search(g, "Player", Hex_initial_squares(g, "Player"), 0)
    THEN [g EXCEPT !.winning_player = Some("Player"), !.game_ended = TRUE]
    ELSE IF Hex_search(g, "Opponent", Hex_initial_squares(g, "Opponent"), 0)
    THEN [g EXCEPT !.winning_player = Some("Opponent"), !.game_ended = TRUE]
    ELSE [g EXCEPT !.winning_player = None, !.game_ended = FALSE]

\* Hex::winning_player: the cached field.
Hex_winning_player(g) == g.winning_player

\* Hex::available_moves
Hex_available_moves(g) == [i \in DOMAIN g.board |-> g.board[i] = "Empty"]

\* Variant of perform_move: the stone played is the other player's.
Hex_perform_move_other_mark(g, space) ==
    Hex_check_winning_player(
        [g EXCEPT !.board[space] = swap_player(g.current_player),
                  !.current_player = swap_player(g.current_player)])

\* Hex::perform_move, for a space that passes the assertion.
Hex_perform_move(g, space) ==
    Hex_check_winning_player(
        [g EXCEPT !.board[space] = g.current_player,
                  !.current_player = swap_player(g.current_player)])

\* Hex::game_ended: the cached field.
Hex_game_ended(g) == g.game_ended

\* Hex::current_player
Hex_current_player(g) == g.current_player

\* Variant of flip_board: the marks are swapped without transposing.
Hex_flip_board_no_transpose(g) ==
    [g EXCEPT !.board = [k \in DOMAIN g.board |-> swap_square(g.board[k])],
              !.current_player = swap_player(g.current_player)]

\* Hex::flip_board: out[i * width + j] = board[j * width + i], every square
\* swapped, current_player swapped; the cached result is left as it is.
Hex_flip_board(g) ==
    LET width == g.side_length
        out == [k \in DOMAIN g.board |->
                   g.board[(k % width) * width + (k \div width)]]
    IN  [g EXCEPT !.board = [k \in DOMAIN g.board |-> swap_square(out[k])],
                  !.current_player = swap_player(g.current_player)]

\* Hex::get_game_state_slice: per square the pair (is Player, is Opponent).
Hex_get_game_state_slice(g) ==
    [k \in 0 .. (2 * Hex_T(g) - 1) |->
        IF k % 2 = 0
        THEN (IF g.board[k \div 2] = "Player" THEN 1 ELSE 0)
        ELSE (IF g.board[k \div 2] = "Opponent" THEN 1 ELSE 0)]

\* ----------------------------------------------------------- state machine

VARIABLES
    root_game,   \* the position mcts was called with
    mcts_tree,   \* the arena: node identifier -> node
    sims,        \* completed iterations of the simulation loop
    pc,          \* position of mcts in its loop
    cur_node,    \* the node selection stands on / the selected leaf
    sim_game,    \* the clone simulate plays on
    sim_moves,   \* Policy.select_move calls of the running simulation
    tree_len,    \* number of nodes when the running simulation started
    points,      \* the value handed to backprop
    stats,       \* Some(GameStats) once mcts returned Ok
    outcome,     \* "running", "ok", "err" (policy error) or "panic"
    game_kind,   \* the Game implementation of the game object: "Checkers" or "Hex"
    game,        \* a game object driven through the Game trait
    last_op,     \* the last call made on the game object or the policy
    flipped,     \* flip_board has been applied to the game object
    past_end,    \* perform_move has been applied after game_ended() was true
    dataset      \* create_dataset: its position, its locals i and flipped

mcts_vars == <<root_game, mcts_tree, sims, pc, cur_node, sim_game, sim_moves,
               tree_len, points, stats, outcome>>

game_vars == <<game_kind, game, last_op, flipped, past_end>>

vars == <<mcts_vars, game_vars, dataset>>

\* create_dataset is not running.
DatasetIdle ==
    [pc |-> "idle", flipped |-> FALSE, i |-> 0, best |-> -1, at_test |-> None]

\* A call record: the operation, its argument or result index, how it ended.
Op(name, arg, result) == [op |-> name, arg |-> arg, result |-> result]

\* The game object before any call: T::new() of the implementation.
GameNew(kind, T) ==
    /\ game_kind = kind
    /\ game = (IF kind = "Checkers" THEN Checkers_new ELSE Hex_new(T))
    /\ last_op = Op("new", T, "ok")
    /\ flipped = FALSE
    /\ past_end = FALSE

Init ==
    /\ root_game \in RootGames
    /\ mcts_tree = <<MCTSData_new(root_game)>>
    /\ sims = 0
    /\ pc = "loop"
    /\ cur_node = 1
    /\ sim_game = root_game
    /\ sim_moves = 0
    /\ tree_len = 1
    /\ points = 0
    /\ stats = None
    /\ outcome = "running"
    /\ GameNew("Checkers", N)
    /\ dataset = DatasetIdle

\* for _ in 0..SIMULATIONS: the next iteration starts select_leaf at the root.
LoopStart ==
    /\ pc = "loop"
    /\ sims < SIMULATIONS
    /\ pc' = "select"
    /\ cur_node' = 1
    /\ sim_moves' = 0
    /\ tree_len' = Len(mcts_tree)
    /\ UNCHANGED <<dataset, game_vars, root_game, mcts_tree, sims, sim_game, points, stats, outcome>>

\* select_leaf: one turn of its while loop.
SelectStep ==
    /\ pc = "select"
    /\ has_children(mcts_tree, cur_node)
    /\ \E next_node_id \in select_child(mcts_tree, mcts_tree[cur_node].children) :
           cur_node' = next_node_id
    /\ UNCHANGED <<dataset, game_vars, root_game, tree_len, mcts_tree, sims, pc, sim_game, sim_moves, points,
                   stats, outcome>>

\* The leaf's position has ended: its value goes straight to backprop.
TerminalLeaf ==
    /\ pc = "select"
    /\ ~has_children(mcts_tree, cur_node)
    /\ game_ended(mcts_tree[cur_node].game)
    /\ points' = terminal_points(mcts_tree[cur_node].game)
    /\ pc' = "backprop"
    /\ UNCHANGED <<dataset, game_vars, root_game, tree_len, mcts_tree, sims, cur_node, sim_game, sim_moves,
                   stats, outcome>>

\* simulate: clone the leaf's position.
SimulateStart ==
    /\ pc = "select"
    /\ ~has_children(mcts_tree, cur_node)
    /\ ~game_ended(mcts_tree[cur_node].game)
    /\ sim_game' = mcts_tree[cur_node].game
    /\ pc' = "simulate"
    /\ UNCHANGED <<dataset, game_vars, root_game, tree_len, mcts_tree, sims, cur_node, sim_moves, points,
                   stats, outcome>>

\* Variant of the rollout turn: the move is played on the leaf's stored
\* position as well, as if simulate had no clone.
SimulateMove_in_place ==
    /\ pc = "simulate"
    /\ ~game_ended(sim_game)
    /\ \E next_move \in Cells :
           IF available_moves(sim_game)[next_move]
           THEN /\ sim_game' = perform_move(sim_game, next_move)
                /\ mcts_tree' = [mcts_tree EXCEPT ![cur_node].game =
                                     perform_move(sim_game, next_move)]
                /\ UNCHANGED <<pc, outcome>>
           ELSE /\ pc' = "done"
                /\ outcome' = "panic"
                /\ UNCHANGED <<sim_game, mcts_tree>>
    /\ sim_moves' = sim_moves + 1
    /\ UNCHANGED <<dataset, game_vars, root_game, tree_len, sims, cur_node, points, stats>>

\* simulate: one turn of its while loop with a policy that answers Ok(next_move).
\* A move on an occupied cell fails the assertion of perform_move.
SimulateMove ==
    /\ pc = "simulate"
    /\ ~game_ended(sim_game)
    /\ \E next_move \in Cells :
           IF available_moves(sim_game)[next_move]
           THEN /\ sim_game' = perform_move(sim_game, next_move)
                /\ UNCHANGED <<pc, outcome>>
           ELSE /\ pc' = "done"
                /\ outcome' = "panic"
                /\ UNCHANGED sim_game
    /\ sim_moves' = sim_moves + 1
    /\ UNCHANGED <<dataset, game_vars, root_game, tree_len, mcts_tree, sims, cur_node, points, stats>>

\* Variant of the policy failure: the error is dropped and the loop goes on.
SimulatePolicyError_continue ==
    /\ pc = "simulate"
    /\ ~game_ended(sim_game)
    /\ pc' = "loop"
    /\ outcome' = "err"
    /\ sim_moves' = sim_moves + 1
    /\ UNCHANGED <<dataset, game_vars, root_game, tree_len, mcts_tree, sims, cur_node, sim_game, points, stats>>

\* simulate: the policy answers Err, which `?` returns from simulate and mcts.
SimulatePolicyError ==
    /\ pc = "simulate"
    /\ ~game_ended(sim_game)
    /\ pc' = "done"
    /\ outcome' = "err"
    /\ sim_moves' = sim_moves + 1
    /\ UNCHANGED <<dataset, game_vars, root_game, tree_len, mcts_tree, sims, cur_node, sim_game, points, stats>>

\* simulate returns; mcts converts the result to points.
SimulateEnd ==
    /\ pc = "simulate"
    /\ game_ended(sim_game)
    /\ points' = result_points(simulate_result(sim_game, SimulatedPlayer))
    /\ pc' = "expand"
    /\ UNCHANGED <<dataset, game_vars, root_game, tree_len, mcts_tree, sims, cur_node, sim_game, sim_moves,
                   stats, outcome>>

\* expand(&mut cur_node)
Expand ==
    /\ pc = "expand"
    /\ mcts_tree' = expand(mcts_tree, cur_node)
    /\ pc' = "backprop"
    /\ UNCHANGED <<dataset, game_vars, root_game, tree_len, sims, cur_node, sim_game, sim_moves, points,
                   stats, outcome>>

\* backprop(&mut cur_node, points), then the next iteration.
Backprop ==
    /\ pc = "backprop"
    /\ mcts_tree' = backprop(mcts_tree, cur_node, points)
    /\ sims' = sims + 1
    /\ pc' = "loop"
    /\ UNCHANGED <<dataset, game_vars, root_game, tree_len, cur_node, sim_game, sim_moves, points, stats, outcome>>

\* Ok(get_tree_stats(&mcts_tree)); max_by_key(..).unwrap() panics without children.
Return ==
    /\ pc = "loop"
    /\ sims = SIMULATIONS
    /\ pc' = "done"
    /\ IF has_children(mcts_tree, 1)
       THEN /\ stats' = Some(get_tree_stats(mcts_tree))
            /\ outcome' = "ok"
       ELSE /\ stats' = None
            /\ outcome' = "panic"
    /\ UNCHANGED <<dataset, game_vars, root_game, tree_len, mcts_tree, sims, cur_node, sim_game, sim_moves, points>>

Next ==
    \/ LoopStart
    \/ SelectStep
    \/ TerminalLeaf
    \/ SimulateStart
    \/ SimulateMove
    \/ SimulatePolicyError
    \/ SimulateEnd
    \/ Expand
    \/ Backprop
    \/ Return

Spec == Init /\ [][Next]_vars

\* ------------------------------------------- the Game trait and RandomPolicy

\* Game::available_moves, Game::winning_player, Game::game_ended,
\* Game::perform_move and Game::flip_board of the implementation `kind`.
Game_available_moves(kind, g) ==
    IF kind = "Checkers" THEN available_moves(g) ELSE Hex_available_moves(g)

Game_winning_player(kind, g) ==
    IF kind = "Checkers" THEN winning_player(g) ELSE Hex_winning_player(g)

Game_game_ended(kind, g) ==
    IF kind = "Checkers" THEN game_ended(g) ELSE Hex_game_ended(g)

Game_perform_move(kind, g, space) ==
    IF kind = "Checkers" THEN perform_move(g, space) ELSE Hex_perform_move(g, space)

Game_flip_board(kind, g) ==
    IF kind = "Checkers" THEN flip_board(g) ELSE Hex_flip_board(g)

\* Variant of RandomPolicy::select_move: any index of the board may come out.
RandomPolicy_select_move_any(kind, g) ==
    {Op("select_move", i, "ok") : i \in DOMAIN Game_available_moves(kind, g)}

\* RandomPolicy::select_move: the calls' possible endings. choose draws
\* from the indices whose flag is true; unwrap panics when there is none.
RandomPolicy_select_move(kind, g) ==
    LET moves == {i \in DOMAIN Game_available_moves(kind, g) :
                     Game_available_moves(kind, g)[i]}
    IN  IF moves = {} THEN {Op("select_move", -1, "panic")}
        ELSE {Op("select_move", i, "ok") : i \in moves}

\* RandomPolicy::can_predict_score
RandomPolicy_can_predict_score == FALSE

\* RandomPolicy::predict_score: todo!() panics.
RandomPolicy_predict_score(kind, g) == Op("predict_score", -1, "panic")

\* T::new() for Checkers or for a Hex board of one of the modelled sizes.
GameInit ==
    /\ root_game = Checkers_new
    /\ mcts_tree = <<MCTSData_new(root_game)>>
    /\ sims = 0
    /\ pc = "idle"
    /\ cur_node = 1
    /\ sim_game = root_game
    /\ sim_moves = 0
    /\ tree_len = 1
    /\ points = 0
    /\ stats = None
    /\ outcome = "running"
    /\ \/ GameNew("Checkers", N)
       \/ \E side \in HexSides : GameNew("Hex", side * side)
    /\ dataset = DatasetIdle

\* perform_move(space) on an empty square.
PerformMove ==
    /\ last_op.result # "panic"
    /\ \E space \in DOMAIN game.board :
          /\ game.board[space] = "Empty"
          /\ game' = Game_perform_move(game_kind, game, space)
          /\ last_op' = Op("perform_move", space, "ok")
    /\ past_end' = (past_end \/ Game_game_ended(game_kind, game))
    /\ UNCHANGED <<dataset, mcts_vars, game_kind, flipped>>

\* perform_move(space) on an occupied square: the assertion fails.
PerformMoveOccupied ==
    /\ last_op.result # "panic"
    /\ \E space \in DOMAIN game.board :
          /\ game.board[space] # "Empty"
          /\ last_op' = Op("perform_move", space, "panic")
    /\ UNCHANGED <<dataset, mcts_vars, game_kind, game, flipped, past_end>>

\* flip_board()
FlipBoard ==
    /\ last_op.result # "panic"
    /\ game' = Game_flip_board(game_kind, game)
    /\ last_op' = Op("flip_board", -1, "ok")
    /\ flipped' = TRUE
    /\ UNCHANGED <<dataset, mcts_vars, game_kind, past_end>>

\* RandomPolicy.select_move(&game)
SelectMove ==
    /\ last_op.result # "panic"
    /\ last_op' \in RandomPolicy_select_move(game_kind, game)
    /\ UNCHANGED <<dataset, mcts_vars, game_kind, game, flipped, past_end>>

\* RandomPolicy.can_predict_score()
CanPredictScore ==
    /\ last_op.result # "panic"
    /\ last_op' = Op("can_predict_score", -1,
                     IF RandomPolicy_can_predict_score THEN "true" ELSE "false")
    /\ UNCHANGED <<dataset, mcts_vars, game_kind, game, flipped, past_end>>

\* RandomPolicy.predict_score(&game)
PredictScore ==
    /\ last_op.result # "panic"
    /\ last_op' = RandomPolicy_predict_score(game_kind, game)
    /\ UNCHANGED <<dataset, mcts_vars, game_kind, game, flipped, past_end>>

GameNext ==
    \/ PerformMove
    \/ PerformMoveOccupied
    \/ FlipBoard
    \/ SelectMove
    \/ CanPredictScore
    \/ PredictScore

GameSpec == GameInit /\ [][GameNext]_vars

\* ----------------------------------------------------- model.rs: AiPolicy

\* The most squares on which a modelled prediction vector is non-zero.
MaxHot == 2

\* The outputs of TrainableModel::predict_moves that are modelled for a
\* board of squares `cells`: 1 on at most MaxHot squares, 0 on the others.
PredictionVectors(cells) ==
    {[i \in cells |-> IF i \in hot THEN 1 ELSE 0] :
        hot \in {h \in SUBSET cells : Cardinality(h) <= MaxHot}}

\* Iterator::max_by over the enumerated values: the index of the last
\* maximal element.
max_by_total_cmp(values) ==
    CHOOSE k \in DOMAIN values :
        /\ \A j \in DOMAIN values : values[j] <= values[k]
        /\ \A j \in DOMAIN values : j > k => values[j] < values[k]

\* AiPolicy::select_move for the prediction `visits` of the model: the
\* prediction is multiplied by the 1.0 / 0.0 mask of available_moves and
\* the index of the maximum is returned.
AiPolicy_select_move(kind, g, visits) ==
    LET move_mask == [i \in DOMAIN g.board |->
                         IF Game_available_moves(kind, g)[i] THEN 1 ELSE 0]
        masked_visits == [i \in DOMAIN g.board |-> visits[i] * move_mask[i]]
        next_move == max_by_total_cmp(masked_visits)
    IN  Op("ai_select_move", next_move, "ok")

\* AiPolicy.select_move(&game): the model answers a prediction or an error.
\* The call reads the game only, so one call per position shows all its
\* results: it is taken after new() or perform_move, as simulate does.
AiSelectMove ==
    /\ last_op.op \in {"new", "perform_move"}
    /\ last_op.result # "panic"
    /\ \/ \E visits \in PredictionVectors(DOMAIN game.board) :
              last_op' = AiPolicy_select_move(game_kind, game, visits)
       \/ last_op' = Op("ai_select_move", -1, "err")
    /\ UNCHANGED <<dataset, mcts_vars, game_kind, game, flipped, past_end>>

\* A move of a game in progress: perform_move while game_ended() is false.
PlayMove ==
    /\ ~Game_game_ended(game_kind, game)
    /\ PerformMove

AiPolicyNext ==
    \/ PlayMove
    \/ AiSelectMove

\* A game played from new() to its end, queried by an AiPolicy on the way.
AiPolicySpec == GameInit /\ [][AiPolicyNext]_vars

\* ---------------------------------------------- dataset.rs: create_dataset

\* The num_games argument of create_dataset.
NumGames == 2

\* Some sequence of legal moves takes g to a position with game_ended():
\* the while loop of simulate can come to its end.
RECURSIVE CanFinishPlayout(_, _)
CanFinishPlayout(kind, g) ==
    \/ Game_game_ended(kind, g)
    \/ \E i \in DOMAIN g.board :
          /\ Game_available_moves(kind, g)[i]
          /\ CanFinishPlayout(kind, Game_perform_move(kind, g, i))

\* mcts(&game, &policy) can return Ok: the root has not ended (it gets
\* children, so get_tree_stats does not panic) and rollouts can end.
McCanReturnOk(kind, g) ==
    /\ ~Game_game_ended(kind, g)
    /\ CanFinishPlayout(kind, g)

\* The best_move_index values an Ok result of mcts may carry: the
\* source_move of a root child, a legal move of the root position.
McBestMoves(kind, g) ==
    {i \in DOMAIN g.board : Game_available_moves(kind, g)[i]}

\* for i in 0..num_games: the first T::new(), flipped = false.
DatasetInit ==
    /\ root_game = Checkers_new
    /\ mcts_tree = <<MCTSData_new(root_game)>>
    /\ sims = 0
    /\ pc = "idle"
    /\ cur_node = 1
    /\ sim_game = root_game
    /\ sim_moves = 0
    /\ tree_len = 1
    /\ points = 0
    /\ stats = None
    /\ outcome = "running"
    /\ \/ GameNew("Checkers", N)
       \/ \E side \in HexSides : GameNew("Hex", side * side)
    /\ dataset = [DatasetIdle EXCEPT !.pc = "while"]

\* while !game.game_ended()
DsWhile ==
    /\ dataset.pc = "while"
    /\ dataset' = [dataset EXCEPT
                      !.pc = IF Game_game_ended(game_kind, game)
                             THEN "end_game" ELSE "print_flip",
                      !.at_test = Some(game)]
    /\ UNCHANGED <<mcts_vars, game_vars>>

\* if flipped { game.flip_board(); } println!("{}", game);
DsPrintFlip ==
    /\ dataset.pc = "print_flip"
    /\ IF dataset.flipped
       THEN /\ game' = Game_flip_board(game_kind, game)
            /\ last_op' = Op("flip_board", -1, "ok")
            /\ flipped' = TRUE
       ELSE UNCHANGED <<game, last_op, flipped>>
    /\ dataset' = [dataset EXCEPT !.pc = "print_unflip"]
    /\ UNCHANGED <<mcts_vars, game_kind, past_end>>

\* if flipped { game.flip_board(); }
DsPrintUnflip ==
    /\ dataset.pc = "print_unflip"
    /\ IF dataset.flipped
       THEN /\ game' = Game_flip_board(game_kind, game)
            /\ last_op' = Op("flip_board", -1, "ok")
            /\ flipped' = TRUE
       ELSE UNCHANGED <<game, last_op, flipped>>
    /\ dataset' = [dataset EXCEPT !.pc = "mcts"]
    /\ UNCHANGED <<mcts_vars, game_kind, past_end>>

\* let game_stats = mcts(&game, &policy)?, returning Ok.
DsMctsOk ==
    /\ dataset.pc = "mcts"
    /\ IF McCanReturnOk(game_kind, game)
       THEN \E best_move_index \in McBestMoves(game_kind, game) :
              dataset' = [dataset EXCEPT !.pc = "perform_move",
                                         !.best = best_move_index]
       ELSE FALSE
    /\ last_op' = Op("mcts", -1, "ok")
    /\ UNCHANGED <<mcts_vars, game_kind, game, flipped, past_end>>

\* mcts returns an error (the policy failed) or panics: create_dataset ends.
DsMctsFails ==
    /\ dataset.pc = "mcts"
    /\ dataset' = [dataset EXCEPT !.pc = "failed"]
    /\ \E result \in {"err", "panic"} : last_op' = Op("mcts", -1, result)
    /\ UNCHANGED <<mcts_vars, game_kind, game, flipped, past_end>>

\* game.perform_move(game_stats.best_move_index)
DsPerformMove ==
    /\ dataset.pc = "perform_move"
    /\ game.board[dataset.best] = "Empty"
    /\ game' = Game_perform_move(game_kind, game, dataset.best)
    /\ last_op' = Op("perform_move", dataset.best, "ok")
    /\ dataset' = [dataset EXCEPT !.pc = "flip"]
    /\ UNCHANGED <<mcts_vars, game_kind, flipped, past_end>>

\* Variant of the flip after the move: flipped is toggled, the board is not
\* flipped.
DsFlip_skipped ==
    /\ dataset.pc = "flip"
    /\ last_op' = Op("flip_board", -1, "ok")
    /\ flipped' = TRUE
    /\ dataset' = [dataset EXCEPT !.pc = "while", !.flipped = ~dataset.flipped]
    /\ UNCHANGED <<mcts_vars, game_kind, game, past_end>>

\* game.flip_board(); flipped = !flipped;
DsFlip ==
    /\ dataset.pc = "flip"
    /\ game' = Game_flip_board(game_kind, game)
    /\ last_op' = Op("flip_board", -1, "ok")
    /\ flipped' = TRUE
    /\ dataset' = [dataset EXCEPT !.pc = "while", !.flipped = ~dataset.flipped]
    /\ UNCHANGED <<mcts_vars, game_kind, past_end>>

\* The game is over: if flipped { game.flip_board(); } println!; then the
\* next iteration of the for loop starts with T::new() and flipped = false
\* (the finished game is dropped), or the loop is done.
DsEndGame ==
    /\ dataset.pc = "end_game"
    /\ IF dataset.i + 1 < NumGames
       THEN /\ game' = (IF game_kind = "Checkers" THEN Checkers_new
                        ELSE Hex_new(Hex_T(game)))
            /\ last_op' = Op("new", Cardinality(DOMAIN game.board), "ok")
            /\ flipped' = FALSE
            /\ dataset' = [dataset EXCEPT !.pc = "while", !.flipped = FALSE,
                                          !.i = dataset.i + 1]
       ELSE /\ dataset' = [dataset EXCEPT !.pc = "done", !.i = dataset.i + 1]
            /\ IF dataset.flipped
               THEN /\ game' = Game_flip_board(game_kind, game)
                    /\ last_op' = Op("flip_board", -1, "ok")
                    /\ flipped' = TRUE
               ELSE UNCHANGED <<game, last_op, flipped>>
    /\ UNCHANGED <<mcts_vars, game_kind, past_end>>

DatasetNext ==
    \/ DsWhile
    \/ DsPrintFlip
    \/ DsPrintUnflip
    \/ DsMctsOk
    \/ DsMctsFails
    \/ DsPerformMove
    \/ DsFlip
    \/ DsEndGame

\* create_dataset over num_games games of Checkers or Hex.
DatasetSpec == DatasetInit /\ [][DatasetNext]_vars
\* ------------------------------------------------------------------ helpers

NodeIds == DOMAIN mcts_tree

ChildSet(tree, node) == Range(tree[node].children)

RECURSIVE Depth(_, _)
Depth(tree, node) ==
    IF tree[node].parent = None THEN 0 ELSE 1 + Depth(tree, unwrap(tree[node].parent))

\* The ancestor k levels above node (node itself for k = 0).
RECURSIVE Ancestor(_, _, _)
Ancestor(tree, node, k) ==
    IF k = 0 THEN node ELSE Ancestor(tree, unwrap(tree[node].parent), k - 1)

PathToRoot(tree, node) == {Ancestor(tree, node, k) : k \in 0 .. Depth(tree, node)}

LegalMoves(g) == {i \in Cells : available_moves(g)[i]}

\* The moves that end the game with the mover of g as winner.
WinningMoves(g) ==
    {i \in LegalMoves(g) : winning_player(perform_move(g, i)) = Some(current_player(g))}

\* The backprop step of an iteration that took the terminal branch: only an
\* expanded leaf has children, and a leaf that is expanded has a legal move.
TerminalBranch == pc = "backprop" /\ ~has_children(mcts_tree, cur_node)

\* ------------------------------------------------------------------- claims

\* C1: after k completed simulations the root's visit count is exactly k, and
\* when mcts returns Ok the root has been visited SIMULATIONS times.
C1_RootVisits ==
    /\ mcts_tree[1].visits = sims
    /\ outcome = "ok" => mcts_tree[1].visits = SIMULATIONS

\* C1 witness: mcts returned Ok after simulations of both kinds (a terminal
\* leaf was visited, and a leaf was expanded below the root).
C1_Witness ==
    /\ outcome = "ok"
    /\ mcts_tree[1].visits = SIMULATIONS
    /\ \E n \in NodeIds : /\ mcts_tree[n].visits > 0
                          /\ game_ended(mcts_tree[n].game)
    /\ \E n \in NodeIds : /\ n # 1
                          /\ has_children(mcts_tree, n)

GameStats == unwrap(stats)

\* C2: when the player to move at the root can win in one move, the move
\* mcts returns is such a winning move.
C2_WinInOneChosen ==
    (outcome = "ok" /\ WinningMoves(root_game) # {})
        => GameStats.best_move_index \in WinningMoves(root_game)

\* The value (fixed-point) of a winner seen from player p: +1 when p won,
\* -1 when the other player won, 0 without a winner.
ValueFor(p, winner) ==
    IF winner = Some(p) THEN ScoreScale
    ELSE IF winner = Some(swap_player(p)) THEN 0 - ScoreScale
    ELSE 0

\* C3: at a leaf whose position has ended, the value handed to backprop is +1
\* when the winner is the player to move at the root, -1 when it is that
\* player's opponent and 0 without a winner; no child was appended and the
\* policy was not asked for a move in that simulation.
C3_TerminalValueForRootMover ==
    TerminalBranch =>
        /\ points = ValueFor(current_player(root_game),
                             winning_player(mcts_tree[cur_node].game))
        /\ sim_moves = 0
        /\ Len(mcts_tree) = tree_len

\* C4 as claimed: the playout's value is relative to the player to move at
\* the leaf the playout started from.
C4_RolloutValueForLeafMover ==
    pc = "expand" =>
        points = ValueFor(current_player(mcts_tree[cur_node].game),
                          winning_player(sim_game))

\* C4 as amended: the playout runs to an ended position and its value is
\* relative to Players::Player, whoever is to move at the leaf: +1 when
\* Player won the playout, -1 when Opponent won it, 0 without a winner.
C4_RolloutValueForPlayer ==
    pc = "expand" =>
        /\ game_ended(sim_game)
        /\ points = ValueFor("Player", winning_player(sim_game))

\* C4 witness: a playout from a leaf where Opponent is to move, won by
\* Opponent, valued -1.
C4_Witness ==
    /\ pc = "expand"
    /\ current_player(mcts_tree[cur_node].game) = "Opponent"
    /\ winning_player(sim_game) = Some("Opponent")
    /\ sim_moves > 0
    /\ points = 0 - ScoreScale

\* What one expand of node does, between the tree before and the tree after.
ExpandPost(before, after, node) ==
    LET g == before[node].game
        kids == after[node].children
        moveOf(k) == unwrap(after[kids[k]].source_move)
    IN  /\ Len(kids) = Cardinality(LegalMoves(g))
        /\ Len(after) = Len(before) + Cardinality(LegalMoves(g))
        /\ \A j, k \in DOMAIN kids : j # k => moveOf(j) # moveOf(k)
        /\ {moveOf(k) : k \in DOMAIN kids} = LegalMoves(g)
        /\ \A k \in DOMAIN kids :
               /\ kids[k] \in (Len(before) + 1) .. Len(after)
               /\ after[kids[k]].game.board =
                      [g.board EXCEPT ![moveOf(k)] = g.current_player]
               /\ after[kids[k]].game.current_player # g.current_player
               /\ after[kids[k]].visits = 0
               /\ after[kids[k]].score = 0
               /\ after[kids[k]].parent = Some(node)
        /\ after[node].game = before[node].game
        /\ after[node].visits = before[node].visits
        /\ after[node].score = before[node].score
        /\ \A n \in DOMAIN before : n # node => after[n] = before[n]

\* C5: expand on a node with m legal moves appends exactly m children with
\* pairwise distinct source moves, which are exactly the legal moves; each
\* child holds the parent's position after its move, with 0 visits and score
\* 0; the parent's position, visits and score do not change.
C5_Expand ==
    [][pc = "expand" => ExpandPost(mcts_tree, mcts_tree', cur_node)]_vars

\* C5 witness: a node below the root was just expanded into two children.
C5_Witness ==
    /\ pc = "backprop"
    /\ cur_node # 1
    /\ Len(mcts_tree[cur_node].children) = 2
    /\ Len(mcts_tree) > tree_len

\* C6: every step of select_leaf goes from a node to one of its own children,
\* and the node select_leaf returns has no children and descends from the root.
C6_SelectionInTree ==
    [][pc = "select" =>
          /\ cur_node' # cur_node => cur_node' \in ChildSet(mcts_tree, cur_node)
          /\ pc' # "select" =>
                 /\ cur_node' = cur_node
                 /\ ~has_children(mcts_tree, cur_node)
                 /\ 1 \in PathToRoot(mcts_tree, cur_node)]_vars

\* C6 witness: select_leaf returned a leaf two levels below the root.
C6_Witness ==
    /\ pc = "simulate"
    /\ Depth(mcts_tree, cur_node) = 2
    /\ ~has_children(mcts_tree, cur_node)

\* C7: where some child of the current node is unvisited, selection moves to
\* an unvisited child; hence a child is visited twice only when all of its
\* siblings have been visited.
C7_FirstVisit ==
    /\ [][(pc = "select" /\ cur_node' # cur_node
              /\ \E c \in ChildSet(mcts_tree, cur_node) : mcts_tree[c].visits = 0)
            => mcts_tree[cur_node'].visits = 0]_vars
    /\ [](\A n \in NodeIds : \A c, d \in ChildSet(mcts_tree, n) :
              mcts_tree[c].visits >= 2 => mcts_tree[d].visits >= 1)

\* C7 witness: a node with three children, one of them visited twice.
C7_Witness ==
    \E n \in NodeIds :
        /\ Len(mcts_tree[n].children) = 3
        /\ \E c \in ChildSet(mcts_tree, n) : mcts_tree[c].visits >= 2

\* C8: one backprop of value v adds v to the leaf's score and v * DECAY^k to
\* the score of the ancestor k levels above the leaf, up to the root.
C8_BackpropDecay ==
    [][pc = "backprop" =>
          \A k \in 0 .. Depth(mcts_tree, cur_node) :
              LET a == Ancestor(mcts_tree, cur_node, k)
              IN  (mcts_tree'[a].score - mcts_tree[a].score) * Pow(DecayDen, k)
                      = points * Pow(DecayNum, k)]_vars

\* C8 witness: a non-zero value was just propagated from a leaf three levels
\* below the root.
C8_Witness ==
    /\ pc = "loop"
    /\ sims > 0
    /\ Depth(mcts_tree, cur_node) = 3
    /\ points # 0

\* C9: in the returned GameStats, node_visits[i] is the visit count of the
\* root child whose source move is i and 0 where i is no legal move of the
\* root position; score is the root's accumulated score, not divided.
C9_StatisticsVector ==
    outcome = "ok" =>
        /\ \A i \in Cells : \A c \in ChildSet(mcts_tree, 1) :
               mcts_tree[c].source_move = Some(i)
                   => GameStats.node_visits[i] = mcts_tree[c].visits
        /\ \A i \in Cells \ LegalMoves(root_game) : GameStats.node_visits[i] = 0
        /\ GameStats.score = mcts_tree[1].score

\* C9 witness: returned statistics with unequal non-zero visit counts and a
\* non-zero root score (so the score and the score per visit differ).
C9_Witness ==
    /\ outcome = "ok"
    /\ \E i, j \in LegalMoves(root_game) :
           /\ GameStats.node_visits[i] > GameStats.node_visits[j]
           /\ GameStats.node_visits[j] > 0
    /\ GameStats.score # 0

\* The root children of maximal visit count.
MostVisited ==
    {c \in ChildSet(mcts_tree, 1) :
        \A d \in ChildSet(mcts_tree, 1) : mcts_tree[d].visits <= mcts_tree[c].visits}

\* C10: the returned best_move_index is the source move of a root child whose
\* visit count is at least that of every other root child, it is a legal move
\* of the root position, and the tree determines it: among the most visited
\* children it is the one of greatest move index (the last in child order).
C10_BestMove ==
    outcome = "ok" =>
        /\ \E c \in MostVisited : mcts_tree[c].source_move = Some(GameStats.best_move_index)
        /\ available_moves(root_game)[GameStats.best_move_index]
        /\ \A c \in MostVisited : unwrap(mcts_tree[c].source_move) <= GameStats.best_move_index

\* C10 witness: mcts returned with two root children tied at the maximum.
C10_Witness ==
    /\ outcome = "ok"
    /\ Cardinality(MostVisited) >= 2
    /\ Cardinality(ChildSet(mcts_tree, 1)) > Cardinality(MostVisited)

\* C11: when the policy's select_move answers an error during a rollout, mcts
\* returns at once with that error: the failing step leaves the tree and the
\* simulation count as they were, no GameStats is produced, and no step
\* (no retry, no further simulation) follows the error.
C11_PolicyFailure ==
    [][ /\ (outcome # "err" /\ outcome' = "err") =>
              /\ pc = "simulate"
              /\ pc' = "done"
              /\ stats' = None
              /\ mcts_tree' = mcts_tree
              /\ sims' = sims
        /\ outcome = "err" => FALSE ]_vars

C11_Witness ==
    /\ outcome = "err"
    /\ pc = "done"
    /\ sims >= 1
    /\ sims < SIMULATIONS
    /\ sim_moves >= 2

\* C12: a failure of the search is an error result of mcts: once all
\* SIMULATIONS iterations have run, extracting the statistics never panics,
\* in particular not for a root whose position has already ended (such a
\* root never gets children); the call ends with Ok or with an error.
C12_NoPanicExtractingStats ==
    (pc = "done" /\ sims = SIMULATIONS) => outcome \in {"ok", "err"}

\* A 3x3 position is over when some row, column or diagonal is owned by one
\* player or no cell is empty (stated on the board, without game_ended).
OwnsLine(g, mark) ==
    LET owns(a, b, c) ==
            g.board[a] = mark /\ g.board[b] = mark /\ g.board[c] = mark
    IN  \/ \E r \in 0..2 : owns(3 * r, 3 * r + 1, 3 * r + 2)
        \/ \E c \in 0..2 : owns(c, c + 3, c + 6)
        \/ owns(0, 4, 8)
        \/ owns(2, 4, 6)

PositionOver(g) ==
    \/ OwnsLine(g, "Player")
    \/ OwnsLine(g, "Opponent")
    \/ \A i \in Cells : g.board[i] # "Empty"

C20_TreeShape ==
    /\ pc = "expand" =>
          /\ ~has_children(mcts_tree, cur_node)
          /\ ~PositionOver(mcts_tree[cur_node].game)
    /\ \A n \in 1..Len(mcts_tree) :
          PositionOver(mcts_tree[n].game) => ~has_children(mcts_tree, n)
    /\ pc = "loop" =>
          \A n \in 1..Len(mcts_tree) :
              has_children(mcts_tree, n) <=>
                  (~PositionOver(mcts_tree[n].game) /\ mcts_tree[n].visits >= 1)

C20_ChildrenFixed ==
    \A n \in 1..Len(mcts_tree) :
        has_children(mcts_tree, n) =>
            /\ n \in 1..Len(mcts_tree')
            /\ mcts_tree'[n].children = mcts_tree[n].children

\* C20: expand acts only on a node without children whose position has not
\* ended; a node that has children keeps exactly those children (it is never
\* expanded again); a node whose position has ended never has children; and
\* between simulations a node has children iff its position has not ended
\* and it has been visited at least once.
C20_SingleExpansion ==
    [][C20_ChildrenFixed]_vars /\ [](C20_TreeShape)

\* An expanded inner node, a visited ended leaf and an unvisited leaf coexist.
C20_Witness ==
    /\ pc = "loop"
    /\ \E n \in 2..Len(mcts_tree) :
          has_children(mcts_tree, n) /\ mcts_tree[n].visits >= 2
    /\ \E n \in 2..Len(mcts_tree) :
          /\ PositionOver(mcts_tree[n].game)
          /\ mcts_tree[n].visits >= 2
          /\ \E i \in Cells : mcts_tree[n].game.board[i] = "Empty"
    /\ \E n \in 2..Len(mcts_tree) :
          ~PositionOver(mcts_tree[n].game) /\ mcts_tree[n].visits = 0

\* The squares of the game object on which a move is legal.
GameLegalMoves ==
    {i \in DOMAIN game.board : Game_available_moves(game_kind, game)[i]}

\* C13: in every position reached from new() by perform_move on empty
\* squares (Checkers, and Hex of every size, side length 1 included),
\* game_ended() is true exactly when no legal move remains or
\* winning_player() is Some.
C13_GameEndedContract ==
    ~flipped =>
        (Game_game_ended(game_kind, game) <=>
            (GameLegalMoves = {} \/ Game_winning_player(game_kind, game) # None))

\* The number of stones on the board of the game object.
GameStones == Cardinality({i \in DOMAIN game.board : game.board[i] # "Empty"})

\* C14: perform_move on an empty square sets that square to the mark of the
\* player to move, leaves every other square unchanged and switches
\* current_player; on an occupied square the assertion fails and the board
\* and current_player are left unchanged (Checkers and Hex).
C14_PerformMoveEffect ==
    [][ last_op'.op = "perform_move" =>
          LET space == last_op'.arg
          IN  IF game.board[space] = "Empty"
              THEN /\ last_op'.result = "ok"
                   /\ game'.board[space] = game.current_player
                   /\ \A i \in DOMAIN game.board \ {space} :
                          game'.board[i] = game.board[i]
                   /\ DOMAIN game'.board = DOMAIN game.board
                   /\ game'.current_player # game.current_player
                   /\ game'.current_player \in {"Player", "Opponent"}
              ELSE /\ last_op'.result = "panic"
                   /\ game'.board = game.board
                   /\ game'.current_player = game.current_player ]_vars

C14_Witness ==
    /\ game_kind = "Hex"
    /\ last_op = Op("perform_move", 4, "panic")
    /\ game.board[4] = "Opponent"
    /\ game.current_player = "Opponent"
    /\ GameStones = 4

\* Reference adjacency of the hexagonal board: (x, y) touches (x-1, y),
\* (x+1, y), (x, y-1), (x, y+1), (x+1, y-1) and (x-1, y+1) inside the board.
HexAdjacent(side, a, b) ==
    LET dx == (b % side) - (a % side)
        dy == (b \div side) - (a \div side)
    IN  <<dx, dy>> \in {<<-1, 0>>, <<1, 0>>, <<0, -1>>, <<0, 1>>, <<1, -1>>, <<-1, 1>>}

\* The squares joined to the set S by chains of adjacent squares of `mark`.
RECURSIVE HexChain(_, _, _)
HexChain(g, mark, S) ==
    LET more == {b \in DOMAIN g.board :
                    /\ g.board[b] = mark
                    /\ \E a \in S : HexAdjacent(g.side_length, a, b)}
    IN  IF more \subseteq S THEN S ELSE HexChain(g, mark, S \cup more)

\* Player links column x = 0 to column x = side - 1; Opponent links row
\* y = 0 to row y = side - 1.
HexLinks(g, mark) ==
    LET side == g.side_length
        own == {i \in DOMAIN g.board : g.board[i] = mark}
        first == IF mark = "Player" THEN {i \in own : i % side = 0}
                 ELSE {i \in own : i \div side = 0}
        last == IF mark = "Player" THEN {i \in own : i % side = side - 1}
                ELSE {i \in own : i \div side = side - 1}
    IN  HexChain(g, mark, first) \cap last # {}

\* C15: for Hex of side length 2 or more, in every position reached from
\* new() by perform_move, winning_player() is Some(Player) iff a chain of
\* adjacent Player squares links column x = 0 to column x = side - 1,
\* Some(Opponent) iff a chain of adjacent Opponent squares links row y = 0 to
\* row y = side - 1, and None otherwise.
C15_HexWinnerReference ==
    (game_kind = "Hex" /\ game.side_length >= 2 /\ ~flipped) =>
        /\ Hex_winning_player(game) = Some("Player") <=> HexLinks(game, "Player")
        /\ Hex_winning_player(game) = Some("Opponent") <=> HexLinks(game, "Opponent")
        /\ Hex_winning_player(game) = None <=>
               (~HexLinks(game, "Player") /\ ~HexLinks(game, "Opponent"))

\* Opponent has won on the side-3 board through the links 2 - 4 - 6, which
\* only the two diagonal adjacencies provide.
C15_Witness ==
    /\ game_kind = "Hex" /\ game.side_length = 3 /\ ~flipped /\ ~past_end
    /\ last_op.op = "perform_move"
    /\ game.board[2] = "Opponent" /\ game.board[4] = "Opponent"
    /\ game.board[6] = "Opponent"
    /\ GameStones = 6
    /\ Hex_winning_player(game) = Some("Opponent")

\* C16: in every Checkers position reached from new() by legal moves with
\* play stopping once game_ended() is true, winning_player() is Some(p) iff
\* player p owns all three squares of some row, column or diagonal and None
\* otherwise, and at most one player owns a complete line (so the order in
\* which the lines are examined does not matter).
C16_CheckersWinner ==
    (game_kind = "Checkers" /\ ~flipped /\ ~past_end) =>
        /\ \A p \in {"Player", "Opponent"} :
               winning_player(game) = Some(p) <=> OwnsLine(game, p)
        /\ winning_player(game) = None <=>
               (~OwnsLine(game, "Player") /\ ~OwnsLine(game, "Opponent"))
        /\ ~(OwnsLine(game, "Player") /\ OwnsLine(game, "Opponent"))

\* Opponent has completed the anti-diagonal 2 - 4 - 6 with its third stone.
C16_Witness ==
    /\ game_kind = "Checkers" /\ ~flipped /\ ~past_end
    /\ last_op = Op("perform_move", 4, "ok")
    /\ game.board[2] = "Opponent" /\ game.board[4] = "Opponent"
    /\ game.board[6] = "Opponent"
    /\ GameStones = 6
    /\ winning_player(game) = Some("Opponent")

\* The mark of the other player; Empty stays Empty.
OtherMark(mark) ==
    CASE mark = "Player" -> "Opponent"
      [] mark = "Opponent" -> "Player"
      [] mark = "Empty" -> "Empty"

\* The square to which one flip carries square i: the square itself on the
\* 3x3 board, the transposed square (x and y exchanged) on a Hex board.
FlipTarget(i) ==
    IF game_kind = "Checkers" THEN i
    ELSE (i % game.side_length) * game.side_length + (i \div game.side_length)

C17_TwoFlips ==
    LET once == Game_flip_board(game_kind, game)
        twice == Game_flip_board(game_kind, once)
    IN  /\ twice.board = game.board
        /\ twice.current_player = game.current_player

C17_OneFlip ==
    last_op'.op = "flip_board" =>
        /\ DOMAIN game'.board = DOMAIN game.board
        /\ \A i \in DOMAIN game.board :
               game'.board[FlipTarget(i)] = OtherMark(game.board[i])
        /\ game'.current_player = OtherMark(game.current_player)

\* C17: flip_board applied twice to any position restores the board and
\* current_player (Checkers and Hex); one flip turns every Player square into
\* an Opponent square and vice versa (on a Hex board at the transposed
\* square), keeps Empty squares Empty and swaps current_player.
C17_FlipInvolution ==
    [][C17_OneFlip]_vars /\ [](C17_TwoFlips)

\* A flip of a side-3 Hex position that is not symmetric under transposition.
C17_Witness ==
    /\ game_kind = "Hex" /\ game.side_length = 3
    /\ last_op.op = "flip_board"
    /\ game.board[1] = "Opponent" /\ game.board[3] = "Empty"
    /\ game.board[5] = "Player" /\ game.board[7] = "Opponent"
    /\ GameStones = 3
    /\ game.current_player = "Player"

C18_PolicyCalls ==
    /\ last_op'.op = "select_move" =>
          IF GameLegalMoves = {}
          THEN last_op'.result = "panic"
          ELSE last_op'.result = "ok" /\ last_op'.arg \in GameLegalMoves
    /\ last_op'.op = "can_predict_score" => last_op'.result = "false"
    /\ last_op'.op = "predict_score" => last_op'.result = "panic"

C18_EveryLegalMovePossible ==
    last_op.result # "panic" =>
        \A i \in GameLegalMoves :
            ENABLED (SelectMove /\ last_op' = Op("select_move", i, "ok"))

\* C18: RandomPolicy.select_move returns only indices whose available_moves
\* flag is true, every legal index is a possible result, and the call fails
\* when the position has no legal move; can_predict_score() returns false and
\* predict_score fails whenever it is invoked.
C18_RandomPolicy ==
    [][C18_PolicyCalls]_vars /\ [](C18_EveryLegalMovePossible)

\* select_move has answered the last of four legal squares of a Hex position.
C18_Witness ==
    /\ game_kind = "Hex" /\ game.side_length = 3
    /\ last_op = Op("select_move", 8, "ok")
    /\ GameLegalMoves = {2, 3, 5, 8}
    /\ ~Hex_game_ended(game)

\* C19: a playout terminates because every perform_move fills one empty
\* square: while game_ended() is false a legal move is left for the policy,
\* so a playout from new() (e = T empty squares) has ended by the time it
\* has made e moves (Checkers and Hex of every size).
C19_PlayoutBounded ==
    (~flipped /\ ~past_end /\ last_op.op \in {"new", "perform_move"}) =>
        /\ GameStones <= Cardinality(DOMAIN game.board)
        /\ ~Game_game_ended(game_kind, game) =>
               GameStones < Cardinality(DOMAIN game.board)

C21_BackpropFrame ==
    /\ \A n \in DOMAIN mcts_tree :
          /\ n \in DOMAIN mcts_tree'
          /\ mcts_tree'[n].visits >= mcts_tree[n].visits
    /\ pc = "backprop" =>
          LET path == PathToRoot(mcts_tree, cur_node)
          IN  /\ 1 \in path /\ cur_node \in path
              /\ DOMAIN mcts_tree' = DOMAIN mcts_tree
              /\ \A n \in DOMAIN mcts_tree :
                    IF n \in path
                    THEN mcts_tree'[n].visits = mcts_tree[n].visits + 1
                    ELSE /\ mcts_tree'[n].visits = mcts_tree[n].visits
                         /\ mcts_tree'[n].score = mcts_tree[n].score
    /\ pc # "backprop" =>
          \A n \in DOMAIN mcts_tree :
              /\ mcts_tree'[n].visits = mcts_tree[n].visits
              /\ mcts_tree'[n].score = mcts_tree[n].score

\* C21: the backprop pass of a simulation adds exactly 1 to the visits of
\* every node on the path from the selected leaf up to the root and to no
\* other node; nodes off the path keep their visits and their score; no
\* other step changes a node's visits or score, so visits never decrease.
C21_VisitCounting ==
    [][C21_BackpropFrame]_vars

\* A pass from a leaf two levels below the root has just ended, in a tree
\* that holds visited nodes off its path.
C21_Witness ==
    /\ pc = "loop" /\ sims >= 3
    /\ Depth(mcts_tree, cur_node) = 2
    /\ \E n \in DOMAIN mcts_tree :
          /\ n \notin PathToRoot(mcts_tree, cur_node)
          /\ mcts_tree[n].visits >= 1
          /\ mcts_tree[n].score # 0

C22_NodesKept ==
    /\ Len(mcts_tree') >= Len(mcts_tree)
    /\ \A n \in DOMAIN mcts_tree :
          /\ mcts_tree'[n].parent = mcts_tree[n].parent
          /\ mcts_tree'[n].game = mcts_tree[n].game
          /\ mcts_tree'[n].source_move = mcts_tree[n].source_move
    /\ root_game' = root_game

\* C22: during one mcts call the tree only grows: no node is removed, and
\* a node's parent, position and source_move never change once it exists
\* (a rollout plays on a clone, not on the leaf's stored position); the
\* caller's root_game is not modified and stays the root node's position.
C22_AppendOnly ==
    [][C22_NodesKept]_vars /\ [](mcts_tree[1].game = root_game)

\* A rollout has played two moves on its clone while the tree holds
\* expanded nodes.
C22_Witness ==
    /\ pc = "simulate"
    /\ sim_moves >= 2
    /\ Len(mcts_tree) >= 4
    /\ cur_node # 1
    /\ sim_game # mcts_tree[cur_node].game

\* C23: source_move is None for the root and only for the root: every other
\* node has source_move = Some(i) with i a legal move of its parent's
\* position, and its position is the parent's position after
\* perform_move(i); so source_move of a root child can always be unwrapped.
C23_SourceMove ==
    /\ mcts_tree[1].source_move = None
    /\ mcts_tree[1].parent = None
    /\ \A n \in DOMAIN mcts_tree \ {1} :
          /\ mcts_tree[n].parent # None
          /\ mcts_tree[n].source_move # None
          /\ LET up == mcts_tree[unwrap(mcts_tree[n].parent)]
                 i == unwrap(mcts_tree[n].source_move)
             IN  /\ i \in Cells
                 /\ up.game.board[i] = "Empty"
                 /\ mcts_tree[n].game.board =
                        [up.game.board EXCEPT ![i] = up.game.current_player]
                 /\ mcts_tree[n].game.current_player # up.game.current_player
                 /\ n \in Range(up.children)
    /\ \A c \in Range(mcts_tree[1].children) : mcts_tree[c].source_move # None

\* mcts has returned Ok from a tree three levels deep whose root children do
\* not carry the moves 0, 1, 2, ...
C23_Witness ==
    /\ outcome = "ok"
    /\ \E n \in DOMAIN mcts_tree : Depth(mcts_tree, n) = 3
    /\ \A c \in Range(mcts_tree[1].children) : unwrap(mcts_tree[c].source_move) >= 2

\* The children of node n whose ucb score no sibling exceeds.
Maximizers(n) ==
    {c \in ChildSet(mcts_tree, n) :
        \A d \in ChildSet(mcts_tree, n) : ucb(mcts_tree, d) <= ucb(mcts_tree, c)}

\* The results the selection step standing on cur_node can move to.
SelectResults == select_child(mcts_tree, mcts_tree[cur_node].children)

\* C24: where selection stands on a node with children, every child that
\* attains the maximal ucb score (in particular every unvisited child when
\* there is one) is a possible result of select_child, whatever its place
\* in child order, and nothing else is.
C24_EveryMaximizerPossible ==
    (pc = "select" /\ has_children(mcts_tree, cur_node)) =>
        /\ Maximizers(cur_node) \subseteq SelectResults
        /\ SelectResults \subseteq Maximizers(cur_node)
        /\ (\E c \in ChildSet(mcts_tree, cur_node) : mcts_tree[c].visits = 0) =>
               SelectResults =
                   {c \in ChildSet(mcts_tree, cur_node) : mcts_tree[c].visits = 0}

\* select_child has returned the middle one of three unvisited siblings.
C24_Witness ==
    /\ pc = "select"
    /\ cur_node # 1
    /\ LET up == mcts_tree[unwrap(mcts_tree[cur_node].parent)]
       IN  /\ Len(up.children) = 3
           /\ up.children[2] = cur_node
           /\ \A c \in Range(up.children) : mcts_tree[c].visits = 0

\* C25: AiPolicy.select_move chooses a legal move: whenever the position
\* has a legal move and the model's prediction is non-negative (a prediction
\* that is 0 on every legal move included), the index it returns is a legal
\* move; and the call fails when the position has no legal move.
C25_AiMoveLegal ==
    last_op.op = "ai_select_move" =>
        IF GameLegalMoves # {}
        THEN last_op.result = "ok" => last_op.arg \in GameLegalMoves
        ELSE last_op.result # "ok"

\* C26: in every Checkers position reached from the empty board by any
\* sequence of perform_move on empty squares and flip_board, the numbers of
\* Player squares and of Opponent squares differ by less than 2, so the
\* assertion of validate_board_state passes.
C26_PieceCount ==
    game_kind = "Checkers" => validate_board_state(game)

\* A move made after flips, on a board with more Opponent than Player stones.
C26_Witness ==
    /\ game_kind = "Checkers" /\ flipped
    /\ last_op.op = "perform_move" /\ last_op.result = "ok"
    /\ Cardinality({i \in Cells : game.board[i] = "Opponent"}) = 3
    /\ Cardinality({i \in Cells : game.board[i] = "Player"}) = 2
    /\ game.current_player = "Player"

\* The sum of the visits of the nodes listed in `children`.
RECURSIVE SumVisits(_, _)
SumVisits(tree, children) ==
    IF children = << >> THEN 0
    ELSE tree[Head(children)].visits + SumVisits(tree, Tail(children))

\* The sum of the entries of a node_visits vector over the cells from i on.
RECURSIVE SumFrom(_, _)
SumFrom(v, i) == IF i >= N THEN 0 ELSE v[i] + SumFrom(v, i + 1)

\* C27: between simulations every node that has children has
\* visits = 1 + the sum of its children's visits, and every node without
\* children whose position has not ended has visits 0; hence when mcts
\* returns Ok for a root that has not ended, the entries of node_visits sum
\* to SIMULATIONS - 1.
C27_VisitConservation ==
    /\ pc = "loop" =>
          \A n \in DOMAIN mcts_tree :
              /\ has_children(mcts_tree, n) =>
                     mcts_tree[n].visits = 1 + SumVisits(mcts_tree, mcts_tree[n].children)
              /\ (~has_children(mcts_tree, n) /\ ~PositionOver(mcts_tree[n].game)) =>
                     mcts_tree[n].visits = 0
    /\ (outcome = "ok" /\ ~PositionOver(root_game)) =>
          SumFrom(GameStats.node_visits, 0) = SIMULATIONS - 1

\* mcts returned Ok from a tree with an inner node below the root that was
\* visited through its children.
C27_Witness ==
    /\ outcome = "ok"
    /\ ~PositionOver(root_game)
    /\ \E n \in DOMAIN mcts_tree \ {1} :
          /\ has_children(mcts_tree, n)
          /\ mcts_tree[n].visits >= 3
          /\ \E c \in Range(mcts_tree[n].children) : has_children(mcts_tree, c)

\* The magnitude of a fixed-point score.
Abs(x) == IF x >= 0 THEN x ELSE 0 - x

\* C28: in every reachable tree every node satisfies |score| <= visits
\* (each backprop pass adds to a node a value of magnitude at most 1).
C28_ScoreBound ==
    \A n \in DOMAIN mcts_tree :
        Abs(mcts_tree[n].score) <= mcts_tree[n].visits * ScoreScale

\* The bound is attained by a leaf visited three times with value -1, below
\* ancestors whose scores are negative and strictly inside the bound.
C28_Witness ==
    \E n \in DOMAIN mcts_tree \ {1} :
        /\ mcts_tree[n].visits >= 3
        /\ mcts_tree[n].score = 0 - mcts_tree[n].visits * ScoreScale
        /\ Abs(mcts_tree[1].score) < mcts_tree[1].visits * ScoreScale
        /\ mcts_tree[1].score < 0

\* C29: after any sequence of perform_move and flip_board calls from new(),
\* the winning_player() and game_ended() of a Hex game equal what
\* check_winning_player computes from the current board; in particular
\* after flip_board on a position won by p, winning_player() reports the
\* swapped player.
C29_HexCacheCoherent ==
    game_kind = "Hex" =>
        LET fresh == Hex_check_winning_player(game)
        IN  /\ Hex_winning_player(game) = Hex_winning_player(fresh)
            /\ Hex_game_ended(game) = Hex_game_ended(fresh)

\* C30: create_dataset calls mcts only on a position whose current_player()
\* is Players::Player and whose game has not ended (game_ended() is false
\* and a legal move is left), and the two flips around printing leave the
\* position as the loop test saw it.
C30_CanonicalMover ==
    dataset.pc = "mcts" =>
        /\ game.current_player = "Player"
        /\ ~Game_game_ended(game_kind, game)
        /\ GameLegalMoves # {}
        /\ Game_winning_player(game_kind, game) = None
        /\ dataset.at_test = Some(game)

\* The second game's search on a Hex position, reached through an odd
\* number of moves and the two flips around printing.
C30_Witness ==
    /\ dataset.pc = "mcts"
    /\ dataset.i = 1
    /\ dataset.flipped
    /\ game_kind = "Hex" /\ game.side_length = 3
    /\ GameStones = 5
====
